---- MODULE Spec2Model ----
(***************************************************************************)
(* ProxyResource.refresh of proxyscrape/scrapers.py: the time-windowed,    *)
(* lock-protected refresh of one proxy source, called by several threads   *)
(* on several resources.                                                   *)
(***************************************************************************)
EXTENDS Integers, FiniteSets, Sequences, TLC

\* ---------------------------------------------------------------- bounds
MaxTime == 2
MaxInterval == 2
MaxProxies == 1

\* the threads that call refresh
Threads == {1, 2}
\* the ProxyResource objects
Resources == {1, 2}
Times == 0..MaxTime
\* the sets of Proxy records a parser can return
ProxySets == SUBSET (1..MaxProxies)

\* ---------------------------------------------------------------- values
\* a lock nobody holds
Free == 0
\* the None of (False, None)
None == <<>>
\* the call has not returned a value
NoResult == <<"none">>
\* how self._func(self._url) ends
Outcomes == {"ok", "InvalidHTMLError", "RequestNotOKError", "OtherError"}
\* the positions of a thread inside refresh
InCall == {"fast", "wait", "locked", "func", "stamp"}

VARIABLES
  now,                 \* time.time()
  refresh_interval,    \* self._refresh_interval, per resource
  last_refresh_time,   \* self._last_refresh_time, per resource
  lock,                \* self._lock, per lock: Free or the holding thread
  pc,                  \* position of each thread in refresh
  res,                 \* the resource (self) of the thread's call
  force,               \* the force argument of the thread's call
  seen,                \* self._last_refresh_time as read by the fast path
  proxies,             \* the local proxies of the thread's call
  result,              \* the value returned by the thread's call
  calls,               \* history: invocations of self._func by the call
  wrote,               \* history: the call assigned self._last_refresh_time
  how,                 \* history: the path the call took through refresh
  overlap,             \* history: pairs of calls on one resource that overlapped
  watch,               \* 0, or the one resource all calls are made on
  prior,               \* history: <<t, u>>, t's call had ended when u's was made
  at,                  \* history: time.time() as read by the fast path
  alone                \* history: no other call on the resource during the call

VARIABLES
  stage,               \* position of the single parser run: off, fetched, parsed, done
  src,                 \* the source id whose parser runs (key of RESOURCE_MAP)
  doc,                 \* what requests.get(url) gives the parser
  out,                 \* how the parser ended: <<kind, proxies>>
  got,                 \* what refresh makes of it: <<exception, returned value, timestamp set>>
  resolved             \* the last lookup in the Protocol Index: <<type, sources>>

\* the state of the parser run and of the index lookup
pvars == <<stage, src, doc, out, got, resolved>>

\* the state of the calls of refresh
rvars == <<now, refresh_interval, last_refresh_time, lock, pc, res, force,
           seen, proxies, result, calls, wrote, how, overlap, watch, prior, at,
           alone>>

vars == <<now, refresh_interval, last_refresh_time, lock, pc, res, force,
          seen, proxies, result, calls, wrote, how, overlap, watch, prior, at,
          alone, pvars>>

\* (mutant) one lock shared by all resources
LockOfShared(r) == 1

\* the lock a resource uses: __init__ creates one Lock() per resource
LockOf(r) == r

\* the refresh_interval argument each resource is constructed with
IntervalOf(r) == ((r - 1) % MaxInterval) + 1

\* no parser has run and the index has not been asked
ParseOff ==
  /\ stage = "off"
  /\ src = "none"
  /\ doc = <<>>
  /\ out = <<"none", {}>>
  /\ got = <<"none", NoResult, FALSE>>
  /\ resolved = <<"none", {}>>

\* ProxyResource.__init__ for every resource; no call is in progress
InitRefresh(w) ==
  /\ now = 0
  /\ refresh_interval = [r \in Resources |-> IntervalOf(r)]
  /\ last_refresh_time = [r \in Resources |-> 0]
  /\ lock = [l \in Resources |-> Free]
  /\ pc = [t \in Threads |-> "idle"]
  /\ res = [t \in Threads |-> 1]
  /\ force = [t \in Threads |-> FALSE]
  /\ seen = [t \in Threads |-> 0]
  /\ proxies = [t \in Threads |-> {}]
  /\ result = [t \in Threads |-> NoResult]
  /\ calls = [t \in Threads |-> 0]
  /\ wrote = [t \in Threads |-> FALSE]
  /\ how = [t \in Threads |-> "none"]
  /\ overlap = {}
  /\ watch = w
  /\ prior = {}
  /\ at = [t \in Threads |-> 0]
  /\ alone = [t \in Threads |-> TRUE]

\* the module as imported: the resources exist, no parser runs
InitWith(w) == ParseOff /\ InitRefresh(w)

\* threads call refresh on any resource
Init == InitWith(0)

\* all calls are made on one resource, and the time of each call is recorded
InitTimed == \E w \in Resources : InitWith(w)

\* the clock advances
Tick ==
  /\ now < MaxTime
  /\ now' = now + 1
  /\ UNCHANGED <<refresh_interval, last_refresh_time, lock, pc, res, force,
                 seen, proxies, result, calls, wrote, how, overlap, watch, prior, at,
                 alone, pvars>>

\* the calls on resource r that are in progress, other than t's
InProgress(t, r) == {u \in Threads \ {t} : pc[u] \in InCall /\ res[u] = r}

\* the calls on resource r that have ended and whose result is still known
Ended(t, r) == {u \in Threads \ {t} : pc[u] \in {"ret", "raised"} /\ res[u] = r}

\* refresh(force) is called on resource r; a non-forced call reads
\* self._last_refresh_time (left operand of the comparison of line 48)
Call(t, r, f) ==
  /\ pc[t] = "idle"
  /\ watch \in {0, r}
  /\ pc' = [pc EXCEPT ![t] = "fast"]
  /\ res' = [res EXCEPT ![t] = r]
  /\ force' = [force EXCEPT ![t] = f]
  /\ seen' = [seen EXCEPT ![t] = IF f THEN 0 ELSE last_refresh_time[r]]
  /\ overlap' = overlap \cup {{t, u} : u \in InProgress(t, r)}
  /\ prior' = IF watch = 0 THEN prior
                          ELSE prior \cup {<<u, t>> : u \in Ended(t, r)}
  /\ alone' = IF watch = 0 THEN alone
                          ELSE [u \in Threads |->
                                  IF u = t THEN InProgress(t, r) = {}
                                  ELSE IF u \in InProgress(t, r) THEN FALSE
                                  ELSE alone[u]]
  /\ UNCHANGED <<now, refresh_interval, last_refresh_time, lock, proxies,
                 result, calls, wrote, how, watch, at, pvars>>

\* (mutant) the fast path is off by one second
FastPathHitOffByOne(t) ==
  /\ ~force[t]
  /\ seen[t] + refresh_interval[res[t]] > now + 1

\* (mutant) no fast path: every call goes on to the lock
FastPathHitNever(t) == FALSE

\* line 48: not force and self._last_refresh_time + self._refresh_interval > time.time()
FastPathHit(t) ==
  /\ ~force[t]
  /\ seen[t] + refresh_interval[res[t]] > now

\* lines 48-49: the unlocked check; return False, None or go on to the lock
FastCheck(t) ==
  /\ pc[t] = "fast"
  /\ IF FastPathHit(t)
       THEN /\ pc' = [pc EXCEPT ![t] = "ret"]
            /\ result' = [result EXCEPT ![t] = <<FALSE, None>>]
            /\ how' = [how EXCEPT ![t] = "fast"]
       ELSE /\ pc' = [pc EXCEPT ![t] = "wait"]
            /\ UNCHANGED <<result, how>>
  /\ seen' = [seen EXCEPT ![t] = 0]
  /\ at' = [at EXCEPT ![t] = IF watch = 0 \/ force[t] THEN 0 ELSE now]
  /\ UNCHANGED <<now, refresh_interval, last_refresh_time, lock, res, force,
                 proxies, calls, wrote, overlap, watch, prior, alone, pvars>>

\* (mutant) acquire never waits
CanAcquireAlways(t) == TRUE

\* Lock.acquire succeeds when the lock is free
CanAcquire(t) == lock[LockOf(res[t])] = Free

\* (mutant) the critical section is entered without taking the lock
AcquireWithoutLock(t) ==
  /\ pc[t] = "wait"
  /\ pc' = [pc EXCEPT ![t] = "locked"]
  /\ UNCHANGED <<now, refresh_interval, last_refresh_time, lock, res, force,
                 seen, proxies, result, calls, wrote, how, overlap, watch, prior, at,
                 alone, pvars>>

\* line 51: with self._lock (enter)
Acquire(t) ==
  /\ pc[t] = "wait"
  /\ CanAcquire(t)
  /\ lock' = [lock EXCEPT ![LockOf(res[t])] = t]
  /\ pc' = [pc EXCEPT ![t] = "locked"]
  /\ UNCHANGED <<now, refresh_interval, last_refresh_time, res, force, seen,
                 proxies, result, calls, wrote, how, overlap, watch, prior, at,
                 alone, pvars>>

\* (mutant) no check under the lock
ExpiredAlways(t) == TRUE

\* (mutant) the check under the lock ignores force
ExpiredIgnoringForce(t) ==
  last_refresh_time[res[t]] + refresh_interval[res[t]] <= now

\* (mutant) the check under the lock leaves the boundary second unexpired
ExpiredStrict(t) ==
  \/ force[t]
  \/ last_refresh_time[res[t]] + refresh_interval[res[t]] < now

\* line 53: force or self._last_refresh_time + self._refresh_interval <= time.time()
Expired(t) ==
  \/ force[t]
  \/ last_refresh_time[res[t]] + refresh_interval[res[t]] <= now

\* (mutant) leaving the critical section does not release the lock
ReleasedNever(t) == lock

\* line 51: with self._lock (exit)
Released(t) == [lock EXCEPT ![LockOf(res[t])] = Free]

\* lines 53-56, 62: the check under the lock; call self._func, or leave the
\* with block and return False, None
ReCheck(t) ==
  /\ pc[t] = "locked"
  /\ IF Expired(t)
       THEN /\ pc' = [pc EXCEPT ![t] = "func"]
            /\ calls' = [calls EXCEPT ![t] = @ + 1]
            /\ UNCHANGED <<lock, result, how>>
       ELSE /\ pc' = [pc EXCEPT ![t] = "ret"]
            /\ lock' = Released(t)
            /\ result' = [result EXCEPT ![t] = <<FALSE, None>>]
            /\ how' = [how EXCEPT ![t] = "recheck"]
            /\ UNCHANGED calls
  /\ UNCHANGED <<now, refresh_interval, last_refresh_time, res, force, seen,
                 proxies, wrote, overlap, watch, prior, at,
                 alone, pvars>>

\* (mutant) only RequestNotOKError is caught
CaughtNotOKOnly(e) == e = "RequestNotOKError"

\* line 59: except (InvalidHTMLError, RequestNotOKError)
Caught(e) == e \in {"InvalidHTMLError", "RequestNotOKError"}

\* (mutant) an exception that refresh does not catch leaves the lock held
FuncReturnLeak(t, e, ps) ==
  /\ pc[t] = "func"
  /\ how' = [how EXCEPT ![t] = e]
  /\ IF e = "ok"
       THEN /\ pc' = [pc EXCEPT ![t] = "stamp"]
            /\ proxies' = [proxies EXCEPT ![t] = ps]
            /\ UNCHANGED <<lock, result>>
       ELSE /\ ps = {}
            /\ UNCHANGED proxies
            /\ IF Caught(e)
                 THEN /\ pc' = [pc EXCEPT ![t] = "ret"]
                      /\ lock' = Released(t)
                      /\ result' = [result EXCEPT ![t] = <<FALSE, None>>]
                 ELSE /\ pc' = [pc EXCEPT ![t] = "raised"]
                      /\ UNCHANGED <<lock, result>>
  /\ UNCHANGED <<now, refresh_interval, last_refresh_time, res, force, seen,
                 calls, wrote, overlap, watch, prior, at, alone, pvars>>

\* lines 56, 59-62: self._func(self._url) returns a set of proxies, or raises
\* an error that refresh swallows or lets through the with block
FuncReturn(t, e, ps) ==
  /\ pc[t] = "func"
  /\ how' = [how EXCEPT ![t] = e]
  /\ IF e = "ok"
       THEN /\ pc' = [pc EXCEPT ![t] = "stamp"]
            /\ proxies' = [proxies EXCEPT ![t] = ps]
            /\ UNCHANGED <<lock, result>>
       ELSE /\ ps = {}
            /\ lock' = Released(t)
            /\ UNCHANGED proxies
            /\ IF Caught(e)
                 THEN /\ pc' = [pc EXCEPT ![t] = "ret"]
                      /\ result' = [result EXCEPT ![t] = <<FALSE, None>>]
                 ELSE /\ pc' = [pc EXCEPT ![t] = "raised"]
                      /\ UNCHANGED result
  /\ UNCHANGED <<now, refresh_interval, last_refresh_time, res, force, seen,
                 calls, wrote, overlap, watch, prior, at,
                 alone, pvars>>

\* (mutant) the timestamp is not updated on success
StampForgotten(t) ==
  /\ pc[t] = "stamp"
  /\ wrote' = [wrote EXCEPT ![t] = TRUE]
  /\ lock' = Released(t)
  /\ pc' = [pc EXCEPT ![t] = "ret"]
  /\ result' = [result EXCEPT ![t] = <<TRUE, <<proxies[t]>>>>]
  /\ UNCHANGED <<now, refresh_interval, last_refresh_time, res, force, seen,
                 proxies, calls, how, overlap, watch, prior, at,
                 alone, pvars>>

\* lines 57-58: self._last_refresh_time = time.time(); return True, proxies
Stamp(t) ==
  /\ pc[t] = "stamp"
  /\ last_refresh_time' = [last_refresh_time EXCEPT ![res[t]] = now]
  /\ wrote' = [wrote EXCEPT ![t] = TRUE]
  /\ lock' = Released(t)
  /\ pc' = [pc EXCEPT ![t] = "ret"]
  /\ result' = [result EXCEPT ![t] = <<TRUE, <<proxies[t]>>>>]
  /\ UNCHANGED <<now, refresh_interval, res, force, seen, proxies, calls, how,
                 overlap, watch, prior, at,
                 alone, pvars>>

\* the caller has the result (or the exception) of the call
Return(t) ==
  /\ pc[t] \in {"ret", "raised"}
  /\ pc' = [pc EXCEPT ![t] = "idle"]
  /\ res' = [res EXCEPT ![t] = 1]
  /\ force' = [force EXCEPT ![t] = FALSE]
  /\ proxies' = [proxies EXCEPT ![t] = {}]
  /\ result' = [result EXCEPT ![t] = NoResult]
  /\ calls' = [calls EXCEPT ![t] = 0]
  /\ wrote' = [wrote EXCEPT ![t] = FALSE]
  /\ how' = [how EXCEPT ![t] = "none"]
  /\ overlap' = {p \in overlap : t \notin p}
  /\ prior' = {p \in prior : p[1] # t /\ p[2] # t}
  /\ at' = [at EXCEPT ![t] = 0]
  /\ alone' = [alone EXCEPT ![t] = TRUE]
  /\ UNCHANGED <<now, refresh_interval, last_refresh_time, lock, seen, watch,
                 pvars>>

Next ==
  \/ Tick
  \/ \E t \in Threads, r \in Resources, f \in BOOLEAN : Call(t, r, f)
  \/ \E t \in Threads : FastCheck(t)
  \/ \E t \in Threads : Acquire(t)
  \/ \E t \in Threads : ReCheck(t)
  \/ \E t \in Threads, e \in Outcomes, ps \in ProxySets : FuncReturn(t, e, ps)
  \/ \E t \in Threads : Stamp(t)
  \/ \E t \in Threads : Return(t)

Spec == Init /\ [][Next]_vars

\* every thread that can take a step of refresh eventually takes it, every
\* invocation of self._func ends, and a thread that finds the lock free again
\* and again eventually gets it
Fairness ==
  \A t \in Threads :
    /\ WF_vars(FastCheck(t))
    /\ SF_vars(Acquire(t))
    /\ WF_vars(ReCheck(t))
    /\ WF_vars(\E e \in Outcomes, ps \in ProxySets : FuncReturn(t, e, ps))
    /\ WF_vars(Stamp(t))

SpecFair == Init /\ [][Next]_vars /\ Fairness

SpecTimed == InitTimed /\ [][Next]_vars

TypeOK ==
  /\ now \in Times
  /\ last_refresh_time \in [Resources -> Times]
  /\ lock \in [Resources -> {Free} \cup Threads]
\* ------------------------------------------------------------ parsers
\* the length of the longest tbody and of the longest text document
MaxRows == 2
MaxTokens == 4

\* a str value and a bool value of a field of Proxy (None is the third kind)
Text(s) == <<"str", s>>
Truth(b) == <<"bool", b>>

\* line 36: Proxy = namedtuple('Proxy', [...])
Proxy(host, port, code, country, anonymous, type, source) ==
  [host |-> host, port |-> port, code |-> code, country |-> country,
   anonymous |-> anonymous, type |-> type, source |-> source]

\* str.lower() on the cell texts of the documents
Lower(s) ==
  CASE s = "US" -> "us"
    [] s = "United States" -> "united states"
    [] s = "Anonymous" -> "anonymous"
    [] s = "Transparent" -> "transparent"
    [] s = "Socks4" -> "socks4"
    [] s = "Socks5" -> "socks5"
    [] s = "Socks6" -> "socks6"
    [] s = "Yes" -> "yes"
    [] OTHER -> s

\* the texts of the td cells of a row of eight columns; the cells 4, 5 and 6
\* (counted from 0) differ from site to site
Cells(c4, c5, c6) ==
  <<"1.2.3.4", "8080", "US", "United States", c4, c5, c6, "1 minute ago">>

\* the first n cells of a row
Take(row, n) == [i \in 1..n |-> row[i]]

\* the rows of a tbody: rows of eight columns cut to 4, 5, 6 or 7 cells
Rows ==
  {Take(Cells(c4, c5, c6), n) :
     c4 \in {"anonymous", "Socks4", "Socks6"},
     c5 \in {"Anonymous", "no"},
     c6 \in {"yes", "no"},
     n \in 4..7}

\* sequences over S of length at most n
SeqUpTo(S, n) == UNION {[1..k -> S] : k \in 0..n}

\* what requests.get(url) gives a table parser: it raises, or the response
\* is not ok, or the content has no table of id proxylisttable, a table of
\* that id without tbody, or one with a tbody of rows
TableDocs ==
  {[response |-> r, table |-> "none", rows |-> <<>>, text |-> <<>>] :
     r \in {"raises", "notok", "ok"}}
  \cup {[response |-> "ok", table |-> "notbody", rows |-> <<>>, text |-> <<>>]}
  \cup {[response |-> "ok", table |-> "tbody", rows |-> rs, text |-> <<>>] :
          rs \in SeqUpTo(Rows, MaxRows)}

\* lines 76-79: data[4].lower() in ('anonymous', 'elite proxy')
IsAnonymous(cell) == Lower(cell) \in {"anonymous", "elite proxy"}

\* lines 76-83 (also 102-109, 245-252, 271-278): a row of a site that has an
\* Https column
HttpsColumnRecord(data, source) ==
  Proxy(data[1], Text(data[2]), Text(Lower(data[3])), Text(Lower(data[4])),
        Truth(IsAnonymous(data[5])),
        IF Lower(data[7]) = "yes" THEN "https" ELSE "http", source)

\* lines 194-201: a row of socks-proxy
SocksRecord(data) ==
  Proxy(data[1], Text(data[2]), Text(Lower(data[3])), Text(Lower(data[4])),
        Truth(IsAnonymous(data[6])), Lower(data[5]), "socks-proxy")

\* lines 220-226: a row of ssl-proxy
SslRecord(data) ==
  Proxy(data[1], Text(data[2]), Text(Lower(data[3])), Text(Lower(data[4])),
        Truth(IsAnonymous(data[5])), "https", "ssl-proxy")

\* the number of leading cells of a row the parser of a source indexes: up
\* to data[6] where there is an Https column, data[5] in socks-proxy, data[4]
\* in ssl-proxy
CellsRead(s) ==
  CASE s = "socks-proxy" -> 6
    [] s = "ssl-proxy" -> 5
    [] OTHER -> 7

\* the Proxy the parser of source s adds for a row
RowRecord(s, data) ==
  CASE s = "socks-proxy" -> SocksRecord(data)
    [] s = "ssl-proxy" -> SslRecord(data)
    [] OTHER -> HttpsColumnRecord(data, s)

\* lines 66-68 and 70-88 (the same in each table parser): the fetch, the
\* lookup of the table and of its tbody, and the loop over its rows, which
\* indexes the leading cells of each row
ParseTable(d, s) ==
  IF d.response = "raises" THEN <<"ConnectionError", {}>>
  ELSE IF d.response = "notok" THEN <<"RequestNotOKError", {}>>
  ELSE IF d.table # "tbody" THEN <<"InvalidHTMLError", {}>>
  ELSE IF \E i \in 1..Len(d.rows) : Len(d.rows[i]) < CellsRead(s)
         THEN <<"IndexError", {}>>
  ELSE <<"ok", {RowRecord(s, d.rows[i]) : i \in 1..Len(d.rows)}>>

get_anonymous_proxies(d) == ParseTable(d, "anonymous-proxy")
get_free_proxy_list_proxies(d) == ParseTable(d, "free-proxy-list")
get_socks_proxies(d) == ParseTable(d, "socks-proxy")
get_ssl_proxies(d) == ParseTable(d, "ssl-proxy")
get_uk_proxies(d) == ParseTable(d, "uk-proxy")
get_us_proxies(d) == ParseTable(d, "us-proxy")

\* the marker phrases of proxy-daily
HttpList == "Free Http/Https Proxy List"
Socks4List == "Free Socks4 Proxy List"
Socks5List == "Free Socks5 Proxy List"

\* the pieces of text that match the inner expression of lines 118-124
HostPorts == {"1.2.3.4:8080", "5.6.7.8:1080"}

\* the pieces a text document is made of
Tokens == {HttpList, Socks4List, Socks5List, "some text"} \cup HostPorts

\* what requests.get(url) gives a proxy-daily parser
TextDocs ==
  {[response |-> r, table |-> "none", rows |-> <<>>, text |-> <<>>] :
     r \in {"raises", "notok"}}
  \cup {[response |-> "ok", table |-> "none", rows |-> <<>>, text |-> tx] :
          tx \in SeqUpTo(Tokens, MaxTokens)}

\* the positions of a piece in a text
At(text, tok) == {i \in 1..Len(text) : text[i] = tok}
Min(S) == CHOOSE i \in S : \A j \in S : i <= j
Max(S) == CHOOSE i \in S : \A j \in S : j <= i

\* (mutant) the two parts of the split are taken in the wrong order
SplitSwapped(hp) ==
  CASE hp = "1.2.3.4:8080" -> <<"8080", "1.2.3.4">>
    [] hp = "5.6.7.8:1080" -> <<"1080", "5.6.7.8">>

\* str.split(':') on a host:port piece
Split(hp) ==
  CASE hp = "1.2.3.4:8080" -> <<"1.2.3.4", "8080">>
    [] hp = "5.6.7.8:1080" -> <<"5.6.7.8", "1080">>

\* lines 117-130: _get_proxy_daily_proxies_parse_inner
get_proxy_daily_proxies_parse_inner(text, type, source) ==
  LET inner_reg == {text[i] : i \in {j \in 1..Len(text) : text[j] \in HostPorts}}
  IN  IF inner_reg = {}
        THEN <<"InvalidHTMLError", {}>>
        ELSE <<"ok", {Proxy(Split(i)[1], Text(Split(i)[2]), None, None, None,
                            type, source) : i \in inner_reg}>>

\* lines 138-142, 155-159: re.findall of opening marker, .* and closing marker
\* under re.X | re.S; the first match runs from the first opening marker to
\* the last closing marker after it (.* is greedy); <<>> when nothing matches
OuterReg(text, opening, closing) ==
  IF At(text, opening) = {} THEN <<>>
  ELSE LET o == Min(At(text, opening))
           after == {i \in At(text, closing) : i > o}
       IN  IF after = {} THEN <<>> ELSE <<SubSeq(text, o, Max(after))>>

\* lines 172-175: re.findall of the opening marker and .* only: the match runs
\* to the end of the text
OuterRegOpen(text, opening) ==
  IF At(text, opening) = {} THEN <<>>
  ELSE <<SubSeq(text, Min(At(text, opening)), Len(text))>>

\* lines 134-136, 144-147 (the same in each proxy-daily parser)
ParseText(d, outer_reg, type, source) ==
  IF d.response = "raises" THEN <<"ConnectionError", {}>>
  ELSE IF d.response = "notok" THEN <<"RequestNotOKError", {}>>
  ELSE IF outer_reg = <<>> THEN <<"InvalidHTMLError", {}>>
  ELSE get_proxy_daily_proxies_parse_inner(outer_reg[1], type, source)

get_proxy_daily_http_proxies(d) ==
  ParseText(d, OuterReg(d.text, HttpList, Socks4List), "http", "proxy-daily-http")

get_proxy_daily_socks4_proxies(d) ==
  ParseText(d, OuterReg(d.text, Socks4List, Socks5List), "socks4",
            "proxy-daily-socks4")

get_proxy_daily_socks5_proxies(d) ==
  ParseText(d, OuterRegOpen(d.text, Socks5List), "socks5", "proxy-daily-socks5")

\* the sources whose parser reads a table, and those whose parser reads text
TableSources == {"anonymous-proxy", "free-proxy-list", "socks-proxy",
                 "ssl-proxy", "uk-proxy", "us-proxy"}
TextSources == {"proxy-daily-http", "proxy-daily-socks4", "proxy-daily-socks5"}

\* lines 286-323: the keys of RESOURCE_MAP
RESOURCE_MAP == TableSources \cup TextSources

\* lines 286-323: the func of the ProxyResource of a source, applied to what
\* requests.get gives for its url
Func(s, d) ==
  CASE s = "anonymous-proxy" -> get_anonymous_proxies(d)
    [] s = "free-proxy-list" -> get_free_proxy_list_proxies(d)
    [] s = "proxy-daily-http" -> get_proxy_daily_http_proxies(d)
    [] s = "proxy-daily-socks4" -> get_proxy_daily_socks4_proxies(d)
    [] s = "proxy-daily-socks5" -> get_proxy_daily_socks5_proxies(d)
    [] s = "socks-proxy" -> get_socks_proxies(d)
    [] s = "ssl-proxy" -> get_ssl_proxies(d)
    [] s = "uk-proxy" -> get_uk_proxies(d)
    [] s = "us-proxy" -> get_us_proxies(d)

\* the documents the site of a source is taken to serve
DocsOf(s) == IF s \in TableSources THEN TableDocs ELSE TextDocs

\* one source's parser is about to be run on one document
InitParse ==
  /\ InitRefresh(0)
  /\ stage = "fetched"
  /\ src \in RESOURCE_MAP
  /\ doc \in DocsOf(src)
  /\ out = <<"none", {}>>
  /\ got = <<"none", NoResult, FALSE>>
  /\ resolved = <<"none", {}>>

\* line 56: self._func(self._url) runs to its end
Parse ==
  /\ stage = "fetched"
  /\ stage' = "parsed"
  /\ out' = Func(src, doc)
  /\ UNCHANGED <<rvars, src, doc, got, resolved>>

\* lines 56-62: what refresh does with the way self._func ended: return
\* True and the proxies after setting the timestamp, return False, None for
\* an error it catches, let any other error through
RefreshOnce ==
  /\ stage = "parsed"
  /\ stage' = "done"
  /\ got' = IF out[1] = "ok" THEN <<"returned", <<TRUE, <<out[2]>>>>, TRUE>>
            ELSE IF Caught(out[1]) THEN <<"returned", <<FALSE, None>>, FALSE>>
            ELSE <<out[1], NoResult, FALSE>>
  /\ UNCHANGED <<rvars, src, doc, out, resolved>>

NextParse == Parse \/ RefreshOnce

SpecParse == InitParse /\ [][NextParse]_vars

\* ------------------------------------------------------------ index
\* (mutant) ssl-proxy is not listed under https
RESOURCE_TYPE_MAP_NoSsl ==
  [http |-> {"us-proxy", "uk-proxy", "free-proxy-list", "proxy-daily-http",
             "anonymous-proxy"},
   https |-> {"us-proxy", "uk-proxy", "free-proxy-list", "anonymous-proxy"},
   socks4 |-> {"socks-proxy", "proxy-daily-socks4"},
   socks5 |-> {"socks-proxy", "proxy-daily-socks5"}]

\* lines 325-348: RESOURCE_TYPE_MAP
RESOURCE_TYPE_MAP ==
  [http |-> {"us-proxy", "uk-proxy", "free-proxy-list", "proxy-daily-http",
             "anonymous-proxy"},
   https |-> {"us-proxy", "uk-proxy", "free-proxy-list", "ssl-proxy",
              "anonymous-proxy"},
   socks4 |-> {"socks-proxy", "proxy-daily-socks4"},
   socks5 |-> {"socks-proxy", "proxy-daily-socks5"}]

\* the types a caller may ask for; "ftp" is not a key of RESOURCE_TYPE_MAP
Schemes == {"http", "https", "socks4", "socks5", "ftp"}

\* resolve(scheme) of the Protocol Index: the sources listed for the type,
\* the empty set for a type that is not listed
resolve(scheme) ==
  IF scheme \in DOMAIN RESOURCE_TYPE_MAP THEN RESOURCE_TYPE_MAP[scheme] ELSE {}

\* a caller looks a type up
Resolve(scheme) ==
  /\ resolved' = <<scheme, resolve(scheme)>>
  /\ UNCHANGED <<rvars, stage, src, doc, out, got>>

NextIndex ==
  \/ Next
  \/ \E scheme \in Schemes : Resolve(scheme)

\* lookups go on while threads call refresh
SpecIndex == InitTimed /\ [][NextIndex]_vars

\* ------------------------------------------------------------ properties

\* the calls of one resource that are inside self._func or right after it
InParser(r) == {t \in Threads : pc[t] \in {"func", "stamp"} /\ res[t] = r}

\* C2: for each resource at most one caller is inside the parser invocation
\* at any time, and every caller inside the critical section (forced or not)
\* is the holder of the lock of its resource
C2_OneParsePerResource ==
  /\ \A r \in Resources : Cardinality(InParser(r)) <= 1
  /\ \A t \in Threads :
       pc[t] \in {"locked", "func", "stamp"} => lock[LockOf(res[t])] = t

\* a forced and a non-forced call on one resource: one in the parser, the
\* other waiting for the lock
C2_Witness ==
  \E t, u \in Threads :
    /\ res[t] = res[u] /\ force[t] # force[u]
    /\ pc[t] = "func" /\ pc[u] = "wait"

\* C4: when the parser raises InvalidHTMLError or RequestNotOKError, refresh
\* returns (False, None), raises nothing, has invoked the parser once, and
\* neither the failing step nor the call assigns _last_refresh_time
C4_FailureSwallowed ==
  [][\A t \in Threads :
       how'[t] \in {"InvalidHTMLError", "RequestNotOKError"} =>
         /\ pc'[t] = "ret"
         /\ result'[t] = <<FALSE, None>>
         /\ calls'[t] = 1
         /\ ~wrote'[t]
         /\ (pc[t] = "func" => last_refresh_time' = last_refresh_time)]_vars

\* both kinds of failure have been swallowed
C4_Witness ==
  \E t, u \in Threads :
    /\ pc[t] = "ret" /\ how[t] = "InvalidHTMLError"
    /\ pc[u] = "ret" /\ how[u] = "RequestNotOKError"

\* C5: a call never invokes the parser twice; a forced call that has ended
\* has invoked it exactly once, and it assigned _last_refresh_time exactly
\* when the parser succeeded
C5_ForcedFetchesOnce ==
  \A t \in Threads :
    /\ calls[t] <= 1
    /\ (wrote[t] => how[t] = "ok")
    /\ (force[t] /\ pc[t] \in {"ret", "raised"} =>
          /\ calls[t] = 1
          /\ (how[t] = "ok" => wrote[t]))

\* a forced call is inside the parser while the refresh window is still open
C5_Witness ==
  \E t \in Threads :
    /\ force[t] /\ pc[t] = "func"
    /\ last_refresh_time[res[t]] + refresh_interval[res[t]] > now

\* C6: when the parser succeeded, refresh returns (True, records) with the
\* set the parser returned and sets _last_refresh_time to the time read
\* after the parse; updated is True in no other case
C6_SuccessReturnsRecords ==
  [][\A t \in Threads :
       /\ (pc[t] = "stamp" /\ pc'[t] # "stamp" =>
             /\ pc'[t] = "ret"
             /\ result'[t] = <<TRUE, <<proxies[t]>>>>
             /\ last_refresh_time'[res[t]] = now)
       /\ (how'[t] = "ok" => pc'[t] \in {"stamp", "ret"})
       /\ (pc'[t] = "ret" /\ result'[t][1] =>
             how'[t] = "ok" /\ calls'[t] = 1)]_vars

\* a call returned (True, records) with a non-empty set, after the clock moved
C6_Witness ==
  \E t \in Threads :
    /\ pc[t] = "ret" /\ result[t] = <<TRUE, <<{1}>>>>
    /\ last_refresh_time[res[t]] = now /\ now > 0

\* C9: a caller waiting for the lock of its resource can take it whenever no
\* call on that same resource is inside the critical section, whatever the
\* calls on other resources are doing
C9_LocksPerResource ==
  \A t \in Threads :
    (/\ pc[t] = "wait"
     /\ \A u \in Threads \ {t} :
          res[u] = res[t] => pc[u] \notin {"locked", "func", "stamp"})
    => ENABLED Acquire(t)

\* the parsers of two different resources are in flight in the same state
C9_Witness ==
  \E t, u \in Threads :
    pc[t] = "func" /\ pc[u] = "func" /\ res[t] # res[u]

\* C10: every step that assigns a resource's _last_refresh_time is taken by
\* the thread that holds that resource's lock
C10_WriteUnderLock ==
  [][\A r \in Resources :
       (\/ last_refresh_time'[r] # last_refresh_time[r]
        \/ \E t \in Threads : res[t] = r /\ wrote'[t] /\ ~wrote[t])
       => \E t \in Threads :
            /\ lock[LockOf(r)] = t /\ res[t] = r
            /\ pc[t] = "stamp" /\ pc'[t] = "ret"]_vars

\* a call has assigned a new timestamp
C10_Witness ==
  \E t \in Threads :
    wrote[t] /\ last_refresh_time[res[t]] > 0
\* the call of t is a non-forced call that went past the fast path and did
\* not end with an exception
PastFastPath(t) ==
  /\ ~force[t]
  /\ pc[t] \in {"wait", "locked", "func", "stamp", "ret"}
  /\ how[t] # "fast"

\* C1 as stated: of the non-forced calls on one resource that overlap in time
\* and found the refresh window expired, at most one invokes the parser
C1_AtMostOneFetch ==
  \A t, u \in Threads :
    (t # u /\ {t, u} \in overlap /\ PastFastPath(t) /\ PastFastPath(u))
    => calls[t] + calls[u] <= 1

\* C1 (amended): once one of the overlapping calls on a resource has updated
\* the timestamp, another non-forced call of them is inside the parser only
\* when the clock has reached the new timestamp plus the refresh interval
C1_OneSuccessPerWindow ==
  \A t, u \in Threads :
    (/\ t # u /\ {t, u} \in overlap
     /\ ~force[t] /\ pc[t] \in {"func", "stamp"}
     /\ wrote[u])
    => last_refresh_time[res[t]] + refresh_interval[res[t]] <= now

\* a concurrent call succeeded, the window expired again while t waited, and
\* t is inside the parser
C1_Witness ==
  \E t, u \in Threads :
    /\ t # u /\ {t, u} \in overlap
    /\ ~force[t] /\ ~force[u] /\ pc[t] = "func"
    /\ wrote[u]

\* C3: a non-forced call whose fast path finds the clock before the timestamp
\* it read plus the refresh interval ends in that step with (False, None):
\* the step needs no lock (it is enabled whoever holds the lock), invokes no
\* parser, changes no lock and no timestamp
C3_FastPathReturns ==
  [][\A t \in Threads :
       (/\ pc[t] = "fast" /\ ~force[t]
        /\ seen[t] + refresh_interval[res[t]] > now)
       => /\ ENABLED FastCheck(t)
          /\ (pc'[t] # "fast" =>
                /\ pc'[t] = "ret"
                /\ result'[t] = <<FALSE, None>>
                /\ calls'[t] = 0
                /\ lock' = lock
                /\ last_refresh_time' = last_refresh_time)]_vars

\* a call returned on the fast path while another call on the same resource
\* holds the lock inside the parser
C3_Witness ==
  \E t, u \in Threads :
    /\ pc[t] = "ret" /\ how[t] = "fast" /\ calls[t] = 0
    /\ res[u] = res[t] /\ pc[u] = "func" /\ lock[LockOf(res[t])] = u
    /\ {t, u} \in overlap

C7_TwoCallsOneFetch ==
  \A t, u \in Threads :
    (/\ <<t, u>> \in prior /\ ~force[t] /\ ~force[u]
     /\ pc[t] = "ret" /\ pc[u] = "ret"
     /\ at[u] - at[t] < refresh_interval[res[u]])
    => /\ calls[t] + calls[u] <= 1
       /\ result[u] = <<FALSE, None>>
       /\ ~wrote[u]

\* C7 (amended): when the first of two non-forced calls on one resource
\* returned (True, records) and the second, made after that, reads the clock
\* before the timestamp plus the refresh interval, the second returns
\* (False, None) without a fetch and without changing the timestamp: one
\* fetch in total
C7_SecondCallInsideWindow ==
  [][\A t, u \in Threads :
       (/\ <<t, u>> \in prior /\ ~force[t] /\ ~force[u]
        /\ pc[t] = "ret" /\ wrote[t]
        /\ pc[u] = "fast" /\ pc'[u] # "fast"
        /\ now < seen[u] + refresh_interval[res[u]])
       => /\ pc'[u] = "ret"
          /\ result'[u] = <<FALSE, None>>
          /\ calls[t] + calls'[u] = 1
          /\ ~wrote'[u]
          /\ last_refresh_time' = last_refresh_time]_vars

\* the first call succeeded, and the second call, made afterwards, returned
\* on the fast path
C7_Witness ==
  \E t, u \in Threads :
    /\ <<t, u>> \in prior /\ ~force[t] /\ ~force[u]
    /\ pc[t] = "ret" /\ wrote[t] /\ calls[t] = 1
    /\ pc[u] = "ret" /\ how[u] = "fast" /\ calls[u] = 0
\* C18: a lock is held only by a thread that is inside the critical section
\* of a call on that lock's resource, so every way out of refresh (success,
\* swallowed failure, failed re-check, uncaught exception) has released it
C18_LockFreeOutside ==
  \A l \in Resources :
    lock[l] # Free =>
      /\ pc[lock[l]] \in {"locked", "func", "stamp"}
      /\ LockOf(res[lock[l]]) = l

\* a call ended with an exception that refresh does not catch, and a later
\* caller holds the lock of the same resource
C18_Witness ==
  \E t, u \in Threads :
    /\ pc[t] = "raised" /\ how[t] = "OtherError"
    /\ res[u] = res[t] /\ pc[u] = "locked" /\ lock[LockOf(res[u])] = u
C20_Step(t) ==
  LET I == refresh_interval[res[t]]
      last == last_refresh_time[res[t]]
  IN  /\ (pc[t] = "fast" /\ ~force[t] /\ pc'[t] # "fast") =>
           (pc'[t] = "wait" <=> seen[t] + I <= now)
      /\ (pc[t] = "locked" /\ ~force[t] /\ pc'[t] # "locked") =>
           /\ pc'[t] = "func" <=> last + I <= now
           /\ alone[t] => pc'[t] = "func" /\ calls'[t] = 1
      /\ (pc[t] = "func" /\ pc'[t] = "ret") =>
           /\ calls'[t] = 1
           /\ last_refresh_time' = last_refresh_time

\* C20: a non-forced call goes past the fast path exactly when the timestamp
\* it read plus the interval is at most the clock, and calls the parser under
\* the lock exactly when the timestamp plus the interval is at most the clock
\* (the boundary second counts as expired); a non-forced call with no other
\* call on the resource during it that passed the fast path always calls the
\* parser, once; a call whose parser failed leaves the timestamp as it was
C20_ChecksAreComplements == [][\A t \in Threads : C20_Step(t)]_vars

\* a first call's parser failed; a later non-forced call, with no other call in
\* progress, is inside the parser on the boundary second of the same window
C20_Witness ==
  \E t, u \in Threads :
    /\ <<u, t>> \in prior /\ how[u] = "InvalidHTMLError"
    /\ pc[t] = "func" /\ ~force[t] /\ alone[t] /\ calls[t] = 1
    /\ last_refresh_time[res[t]] + refresh_interval[res[t]] = now
\* what refresh returns for a failure it swallows, the timestamp not set
Swallowed == <<"returned", <<FALSE, None>>, FALSE>>

\* C11: for a table source, a fetched document without the table (or its
\* tbody), or with a row of fewer cells than the parser reads, makes refresh
\* return (False, None) and raise nothing
C11_MalformedTableSwallowed ==
  (/\ stage = "done" /\ src \in TableSources /\ doc.response = "ok"
   /\ \/ doc.table # "tbody"
      \/ \E i \in 1..Len(doc.rows) : Len(doc.rows[i]) < CellsRead(src))
  => got = Swallowed

\* C12: when requests.get raises, refresh returns (False, None), leaves the
\* timestamp as it was and raises nothing
C12_TransportErrorSwallowed ==
  (stage = "done" /\ doc.response = "raises") => got = Swallowed

\* the marker phrase that opens the region of a proxy-daily source
Opening(s) ==
  CASE s = "proxy-daily-http" -> HttpList
    [] s = "proxy-daily-socks4" -> Socks4List
    [] s = "proxy-daily-socks5" -> Socks5List

\* the marker phrases that can close it: the heading of the following
\* category; after the last category, any heading
Closing(s) ==
  CASE s = "proxy-daily-http" -> {Socks4List}
    [] s = "proxy-daily-socks4" -> {Socks5List}
    [] s = "proxy-daily-socks5" -> {HttpList, Socks4List, Socks5List}

\* the positions of closing markers of source s after position o of a text
ClosingAfter(s, text, o) ==
  {i \in 1..Len(text) : i > o /\ text[i] \in Closing(s)}

\* C13: a proxy-daily parser given a text without its opening marker, or
\* without a closing marker after the opening one, ends with
\* InvalidHTMLError: the text after the opening marker is never taken as the
\* region for want of a closing marker
C13_MarkersFailClosed ==
  (/\ stage # "fetched" /\ src \in TextSources /\ doc.response = "ok"
   /\ \/ At(doc.text, Opening(src)) = {}
      \/ ClosingAfter(src, doc.text, Min(At(doc.text, Opening(src)))) = {})
  => out[1] = "InvalidHTMLError"

\* the document of C14
HttpRegionDoc ==
  [response |-> "ok", table |-> "none", rows |-> <<>>,
   text |-> <<HttpList, "1.2.3.4:8080", Socks4List>>]

\* an int value of a field of Proxy
Number(n) == <<"int", n>>

C15_ResolveIsLookup ==
  /\ resolved[1] = "http" =>
       resolved[2] = {"us-proxy", "uk-proxy", "free-proxy-list",
                      "proxy-daily-http", "anonymous-proxy"}
  /\ resolved[1] = "https" =>
       resolved[2] = {"us-proxy", "uk-proxy", "free-proxy-list", "ssl-proxy",
                      "anonymous-proxy"}
  /\ resolved[1] = "socks4" => resolved[2] = {"socks-proxy", "proxy-daily-socks4"}
  /\ resolved[1] = "socks5" => resolved[2] = {"socks-proxy", "proxy-daily-socks5"}
  /\ resolved[1] \notin {"http", "https", "socks4", "socks5"} => resolved[2] = {}
  /\ resolved[2] \subseteq RESOURCE_MAP

\* https is looked up after a refresh has set a timestamp and while a call
\* is inside the parser
C15_Witness ==
  /\ resolved[1] = "https" /\ "ssl-proxy" \in resolved[2]
  /\ \E r \in Resources : last_refresh_time[r] > 0
  /\ \E t \in Threads : pc[t] = "func"

\* C16: the type of every record a parser returns is one of http, https,
\* socks4, socks5
C16_TypeInClosedSet ==
  stage # "fetched" =>
    \A p \in out[2] : p.type \in {"http", "https", "socks4", "socks5"}

\* C17: every record the http or the socks4 parser of proxy-daily returns
\* comes from a host:port piece that lies after an occurrence of its opening
\* marker and before the next closing marker after that occurrence
C17_OnlyOwnRegion ==
  (stage # "fetched" /\ src \in {"proxy-daily-http", "proxy-daily-socks4"}) =>
    \A p \in out[2] :
      \E o \in At(doc.text, Opening(src)) :
        /\ ClosingAfter(src, doc.text, o) # {}
        /\ \E i \in 1..Len(doc.text) :
             /\ o < i /\ i < Min(ClosingAfter(src, doc.text, o))
             /\ doc.text[i] \in HostPorts
             /\ Split(doc.text[i])[1] = p.host
====
